---- MODULE Spec2Model ----
(***************************************************************************)
(* The global callsite registry of tokio-trace-core (callsite.rs).         *)
(*                                                                         *)
(* A Mutex guards two vectors: the callsites ever registered and the       *)
(* registrars (weak handles) of the dispatchers registered.  Threads call  *)
(* register, register_dispatch and reset_registry; each call is modelled   *)
(* statement by statement, so that the interleavings of several threads    *)
(* are the interleavings the lock allows.  Collaborator calls (metadata,   *)
(* try_register, register_callsite, add_interest) return or panic; a panic *)
(* under the lock poisons the Mutex.  Dispatchers may be dropped at any    *)
(* time by their owners.                                                   *)
(***************************************************************************)
EXTENDS Naturals, Sequences, FiniteSets, TLC

\* ------------------------------------------------------------------ bounds

\* Threads calling into the registry.
Threads == {"t1", "t2"}

\* The callsites of the process (&'static Callsite).
Callsites == {"c1", "c2"}

\* The dispatchers the process may create.
Dispatchers == {"d1", "d2"}

\* Calls of register / register_dispatch / reset_registry in one behaviour.
MaxOps == 3

\* ------------------------------------------------------------ collaborators

NoThread == "none"

\* Option::None, the answer of an expired registrar.
None == "None"

\* Callsite::metadata: the descriptor fixed at the callsite's construction.
Meta(c) == IF c = "c1" THEN "m1" ELSE "m2"

\* Subscriber::register_callsite, reached through Dispatch: the dispatcher's
\* policy, a function of the dispatcher and the metadata it is asked about.
RegisterCallsite(d, m) ==
    CASE d = "d1" /\ m = "m1" -> "always"
      [] d = "d1" /\ m = "m2" -> "sometimes"
      [] d = "d2" /\ m = "m1" -> "never"
      [] OTHER                -> "always"

\* Dispatch::registrar: a fresh weak handle to dispatcher d, made by call k.
Registrar(d, k) == [dispatch |-> d, serial |-> k]

\* ------------------------------------------------------------------- state

VARIABLES
    callsites,    \* Registry.callsites: Vec<&'static Callsite>
    dispatchers,  \* Registry.dispatchers: Vec<dispatcher::Registrar>
    lock,         \* the thread holding REGISTRY's Mutex, or NoThread
    poisoned,     \* the Mutex's poison flag
    alive,        \* the dispatchers that have not been dropped
    pc,           \* each thread's position
    op,           \* the entry point the thread is in
    arg,          \* its argument (callsite or dispatch)
    id,           \* serial number of the call
    meta,         \* register's local `meta`
    i,            \* position of the running loop (retain / for) in its vector
    kept,         \* the registrars retain has kept so far
    queried,      \* the queries the call has made, with their answers
    size0,        \* length of the vector the call iterates, when it locked
    trace,        \* add_interest calls received by callsites, and returns
    nops,         \* calls started so far
    stack,        \* frames of the calls a thread is inside, below the running one
    ident         \* two callsite references and the Identifiers made of them

registry == <<callsites, dispatchers>>
mutex    == <<lock, poisoned>>
locals   == <<op, arg, id, meta, i, kept, queried, size0>>
outside  == <<stack, ident>>
vars     == <<callsites, dispatchers, lock, poisoned, alive, pc, op, arg, id,
              meta, i, kept, queried, size0, trace, nops, stack, ident>>

Range(s) == {s[k] : k \in 1..Len(s)}

\* No Identifier is being made or compared; a field not yet computed is the
\* empty sequence, a computed one the sequence of its value.
NoIdent == [a |-> <<>>, b |-> <<>>, id_a |-> <<>>, id_b |-> <<>>,
            eq |-> <<>>, hash_a |-> <<>>, hash_b |-> <<>>]

\* Registrar::try_register: Some(interest) while the dispatcher exists.
TryRegister(r, m) ==
    IF r.dispatch \in alive THEN RegisterCallsite(r.dispatch, m) ELSE None

\* callsite.add_interest(interest), as the callsite receives it.
AddInterest(c, r, interest, k) ==
    [ev |-> "add_interest", callsite |-> c, registrar |-> r,
     interest |-> interest, by |-> k]

Returned(o, a, k) == [ev |-> "return", op |-> o, arg |-> a, by |-> k]

\* The add_interest calls made by call k, in order.
Calls(k) == SelectSeq(trace, LAMBDA e : e.ev = "add_interest" /\ e.by = k)

\* The calls that have returned, in order.
History == SelectSeq(trace, LAMBDA e : e.ev = "return")

InRegistry == {"metadata", "retain", "push_callsite", "push_registrar",
               "for_callsites", "clear_callsites", "clear_dispatchers",
               "unlock"}

RegistryInit ==
    /\ callsites = <<>>
    /\ dispatchers = <<>>
    /\ lock = NoThread
    /\ poisoned = FALSE
    /\ alive = Dispatchers
    /\ pc = [t \in Threads |-> "idle"]
    /\ op = [t \in Threads |-> "none"]
    /\ arg = [t \in Threads |-> "none"]
    /\ id = [t \in Threads |-> 0]
    /\ meta = [t \in Threads |-> "none"]
    /\ i = [t \in Threads |-> 0]
    /\ kept = [t \in Threads |-> <<>>]
    /\ queried = [t \in Threads |-> <<>>]
    /\ size0 = [t \in Threads |-> 0]
    /\ trace = <<>>
    /\ nops = 0
    /\ stack = [t \in Threads |-> <<>>]

Init == RegistryInit /\ ident = NoIdent

\* ------------------------------------------------------------------- calls

Call(t, o, a) ==
    /\ pc[t] = "idle"
    /\ nops < MaxOps
    /\ nops' = nops + 1
    /\ pc' = [pc EXCEPT ![t] = "lock"]
    /\ op' = [op EXCEPT ![t] = o]
    /\ arg' = [arg EXCEPT ![t] = a]
    /\ id' = [id EXCEPT ![t] = nops + 1]
    /\ UNCHANGED <<registry, mutex, alive, meta, i, kept, queried, size0, trace>>
    /\ UNCHANGED outside

\* A thread calls register(callsite).
CallRegister(t, c) == Call(t, "register", c)

\* A thread calls register_dispatch(&dispatch): the dispatch exists.
CallRegisterDispatch(t, d) == d \in alive /\ Call(t, "register_dispatch", d)

\* A thread calls reset_registry().
CallReset(t) == Call(t, "reset_registry", "none")

FirstStatement(o) ==
    CASE o = "register"          -> "metadata"
      [] o = "register_dispatch" -> "push_registrar"
      [] OTHER                   -> "clear_callsites"

\* The vector the call's loop runs over.
Iterated(o) ==
    CASE o = "register"          -> dispatchers
      [] o = "register_dispatch" -> callsites
      [] OTHER                   -> <<>>

ClearLocals(t) ==
    /\ op' = [op EXCEPT ![t] = "none"]
    /\ arg' = [arg EXCEPT ![t] = "none"]
    /\ id' = [id EXCEPT ![t] = 0]
    /\ meta' = [meta EXCEPT ![t] = "none"]
    /\ i' = [i EXCEPT ![t] = 0]
    /\ kept' = [kept EXCEPT ![t] = <<>>]
    /\ queried' = [queried EXCEPT ![t] = <<>>]
    /\ size0' = [size0 EXCEPT ![t] = 0]

\* A lock() that recovers the guard of a poisoned Mutex.
LockIgnoringPoison(t) ==
    /\ pc[t] = "lock"
    /\ lock = NoThread
    /\ lock' = t
    /\ pc' = [pc EXCEPT ![t] = FirstStatement(op[t])]
    /\ size0' = [size0 EXCEPT ![t] = Len(Iterated(op[t]))]
    /\ UNCHANGED <<op, arg, id, meta, i, kept, queried>>
    /\ UNCHANGED <<registry, poisoned, alive, trace, nops>>
    /\ UNCHANGED outside

\* A lock() that does not wait for the holder.
LockWithoutWaiting(t) ==
    /\ pc[t] = "lock"
    /\ ~poisoned
    /\ lock' = t
    /\ pc' = [pc EXCEPT ![t] = FirstStatement(op[t])]
    /\ size0' = [size0 EXCEPT ![t] = Len(Iterated(op[t]))]
    /\ UNCHANGED <<op, arg, id, meta, i, kept, queried>>
    /\ UNCHANGED <<registry, poisoned, alive, trace, nops>>
    /\ UNCHANGED outside

\* REGISTRY.lock().unwrap(): blocks while another thread holds the Mutex;
\* panics, leaving the registry untouched, when the Mutex is poisoned.
Lock(t) ==
    /\ pc[t] = "lock"
    /\ lock = NoThread
    /\ IF poisoned
       THEN /\ pc' = [pc EXCEPT ![t] = "panicked"]
            /\ ClearLocals(t)
            /\ UNCHANGED lock
       ELSE /\ lock' = t
            /\ pc' = [pc EXCEPT ![t] = FirstStatement(op[t])]
            /\ size0' = [size0 EXCEPT ![t] = Len(Iterated(op[t]))]
            /\ UNCHANGED <<op, arg, id, meta, i, kept, queried>>
    /\ UNCHANGED <<registry, poisoned, alive, trace, nops>>
    /\ UNCHANGED outside

\* The guard is dropped at the end of the function: the call returns.
Unlock(t) ==
    /\ pc[t] = "unlock"
    /\ lock' = NoThread
    /\ pc' = [pc EXCEPT ![t] = "idle"]
    /\ trace' = Append(trace, Returned(op[t], arg[t], id[t]))
    /\ ClearLocals(t)
    /\ UNCHANGED <<registry, poisoned, alive, nops>>
    /\ UNCHANGED outside

\* ---------------------------------------------------------------- register

\* let meta = callsite.metadata();
Metadata(t) ==
    /\ pc[t] = "metadata"
    /\ meta' = [meta EXCEPT ![t] = Meta(arg[t])]
    /\ i' = [i EXCEPT ![t] = 1]
    /\ kept' = [kept EXCEPT ![t] = <<>>]
    /\ pc' = [pc EXCEPT ![t] = "retain"]
    /\ UNCHANGED <<registry, mutex, alive, op, arg, id, queried, size0, trace, nops>>
    /\ UNCHANGED outside

\* A closure that keeps every registrar.
RetainedAlways(answer) == TRUE

\* The closure's verdict on a registrar that answered `answer`.
Retained(answer) == answer # None

\* callsite.remove_interest(), as the callsite receives it.
RemoveInterest(c, k) == [ev |-> "remove_interest", callsite |-> c, by |-> k]

\* The remove_interest calls, by call k, on every callsite of sequence cs.
RevokeAll(cs, k) == [n \in 1..Len(cs) |-> RemoveInterest(cs[n], k)]

\* A retain that disables the known callsites when it finds a registrar
\* expired.
RetainStepRevoking(t) ==
    /\ pc[t] = "retain"
    /\ i[t] <= Len(dispatchers)
    /\ LET registrar == dispatchers[i[t]]
           answer == TryRegister(registrar, meta[t])
       IN  /\ queried' = [queried EXCEPT ![t] = Append(@, <<registrar, answer>>)]
           /\ trace' = IF answer # None
                       THEN Append(trace, AddInterest(arg[t], registrar, answer, id[t]))
                       ELSE trace \o RevokeAll(callsites, id[t])
           /\ kept' = [kept EXCEPT ![t] = IF Retained(answer)
                                          THEN Append(@, registrar) ELSE @]
    /\ i' = [i EXCEPT ![t] = @ + 1]
    /\ UNCHANGED <<registry, mutex, alive, pc, op, arg, id, meta, size0, nops>>
    /\ UNCHANGED outside

\* A retain that gives up at the first expired registrar.
RetainStepUntilExpired(t) ==
    /\ pc[t] = "retain"
    /\ i[t] <= Len(dispatchers)
    /\ LET registrar == dispatchers[i[t]]
           answer == TryRegister(registrar, meta[t])
       IN  /\ queried' = [queried EXCEPT ![t] = Append(@, <<registrar, answer>>)]
           /\ trace' = IF answer # None
                       THEN Append(trace, AddInterest(arg[t], registrar, answer, id[t]))
                       ELSE trace
           /\ kept' = [kept EXCEPT ![t] = IF Retained(answer)
                                          THEN Append(@, registrar) ELSE @]
           /\ i' = [i EXCEPT ![t] = IF answer = None
                                    THEN Len(dispatchers) + 1 ELSE @ + 1]
    /\ UNCHANGED <<registry, mutex, alive, pc, op, arg, id, meta, size0, nops>>
    /\ UNCHANGED outside

\* One call of retain's closure, on the next registrar of the vector.
RetainStep(t) ==
    /\ pc[t] = "retain"
    /\ i[t] <= Len(dispatchers)
    /\ LET registrar == dispatchers[i[t]]
           answer == TryRegister(registrar, meta[t])
       IN  /\ queried' = [queried EXCEPT ![t] = Append(@, <<registrar, answer>>)]
           /\ trace' = IF answer # None
                       THEN Append(trace, AddInterest(arg[t], registrar, answer, id[t]))
                       ELSE trace
           /\ kept' = [kept EXCEPT ![t] = IF Retained(answer)
                                          THEN Append(@, registrar) ELSE @]
    /\ i' = [i EXCEPT ![t] = @ + 1]
    /\ UNCHANGED <<registry, mutex, alive, pc, op, arg, id, meta, size0, nops>>
    /\ UNCHANGED outside

\* A retain that starts over when it reaches the end of the vector.
RetainAgain(t) ==
    /\ pc[t] = "retain"
    /\ i[t] > Len(dispatchers)
    /\ i' = [i EXCEPT ![t] = 1]
    /\ kept' = [kept EXCEPT ![t] = <<>>]
    /\ UNCHANGED <<registry, mutex, alive, pc, op, arg, id, meta, queried,
                   size0, trace, nops>>
    /\ UNCHANGED outside

\* retain returns: the vector holds the registrars kept, in their order.
RetainEnd(t) ==
    /\ pc[t] = "retain"
    /\ i[t] > Len(dispatchers)
    /\ dispatchers' = kept[t]
    /\ pc' = [pc EXCEPT ![t] = "push_callsite"]
    /\ UNCHANGED <<callsites, mutex, alive, locals, trace, nops>>
    /\ UNCHANGED outside

\* A push that skips a callsite the registry already holds.
PushCallsiteOnce(t) ==
    /\ pc[t] = "push_callsite"
    /\ callsites' = IF arg[t] \in Range(callsites)
                    THEN callsites ELSE Append(callsites, arg[t])
    /\ pc' = [pc EXCEPT ![t] = "unlock"]
    /\ UNCHANGED <<dispatchers, mutex, alive, locals, trace, nops>>
    /\ UNCHANGED outside

\* A push made only for a callsite some dispatcher answered for.
PushCallsiteIfKept(t) ==
    /\ pc[t] = "push_callsite"
    /\ callsites' = IF kept[t] = <<>>
                    THEN callsites ELSE Append(callsites, arg[t])
    /\ pc' = [pc EXCEPT ![t] = "unlock"]
    /\ UNCHANGED <<dispatchers, mutex, alive, locals, trace, nops>>
    /\ UNCHANGED outside

\* registry.callsites.push(callsite);
PushCallsite(t) ==
    /\ pc[t] = "push_callsite"
    /\ callsites' = Append(callsites, arg[t])
    /\ pc' = [pc EXCEPT ![t] = "unlock"]
    /\ UNCHANGED <<dispatchers, mutex, alive, locals, trace, nops>>
    /\ UNCHANGED outside

\* ------------------------------------------------------- register_dispatch

\* A push at the front of the active set.
PushRegistrarFront(t) ==
    /\ pc[t] = "push_registrar"
    /\ dispatchers' = <<Registrar(arg[t], id[t])>> \o dispatchers
    /\ i' = [i EXCEPT ![t] = 1]
    /\ pc' = [pc EXCEPT ![t] = "for_callsites"]
    /\ UNCHANGED <<callsites, mutex, alive, op, arg, id, meta, kept, queried,
                   size0, trace, nops>>
    /\ UNCHANGED outside

\* A push that first purges the registrars of dropped dispatchers.
PushRegistrarPurging(t) ==
    /\ pc[t] = "push_registrar"
    /\ dispatchers' = Append(SelectSeq(dispatchers,
                                       LAMBDA r : r.dispatch \in alive),
                             Registrar(arg[t], id[t]))
    /\ i' = [i EXCEPT ![t] = 1]
    /\ pc' = [pc EXCEPT ![t] = "for_callsites"]
    /\ UNCHANGED <<callsites, mutex, alive, op, arg, id, meta, kept, queried,
                   size0, trace, nops>>
    /\ UNCHANGED outside

\* registry.dispatchers.push(dispatch.registrar());
PushRegistrar(t) ==
    /\ pc[t] = "push_registrar"
    /\ dispatchers' = Append(dispatchers, Registrar(arg[t], id[t]))
    /\ i' = [i EXCEPT ![t] = 1]
    /\ pc' = [pc EXCEPT ![t] = "for_callsites"]
    /\ UNCHANGED <<callsites, mutex, alive, op, arg, id, meta, kept, queried,
                   size0, trace, nops>>
    /\ UNCHANGED outside

\* A loop that asks about the first callsite's metadata every time.
ForCallsiteStaleMeta(t) ==
    /\ pc[t] = "for_callsites"
    /\ i[t] <= Len(callsites)
    /\ LET callsite == callsites[i[t]]
           interest == RegisterCallsite(arg[t], Meta(callsites[1]))
       IN  /\ queried' = [queried EXCEPT ![t] = Append(@, <<callsite, interest>>)]
           /\ trace' = Append(trace, AddInterest(callsite, Registrar(arg[t], id[t]),
                                                 interest, id[t]))
    /\ i' = [i EXCEPT ![t] = @ + 1]
    /\ UNCHANGED <<registry, mutex, alive, pc, op, arg, id, meta, kept, size0, nops>>
    /\ UNCHANGED outside

\* A loop that visits the callsites without telling them.
ForCallsiteSilent(t) ==
    /\ pc[t] = "for_callsites"
    /\ i[t] <= Len(callsites)
    /\ i' = [i EXCEPT ![t] = @ + 1]
    /\ UNCHANGED <<registry, mutex, alive, pc, op, arg, id, meta, kept,
                   queried, size0, trace, nops>>
    /\ UNCHANGED outside

\* One iteration of `for callsite in &registry.callsites`.
ForCallsite(t) ==
    /\ pc[t] = "for_callsites"
    /\ i[t] <= Len(callsites)
    /\ LET callsite == callsites[i[t]]
           interest == RegisterCallsite(arg[t], Meta(callsite))
       IN  /\ queried' = [queried EXCEPT ![t] = Append(@, <<callsite, interest>>)]
           /\ trace' = Append(trace, AddInterest(callsite, Registrar(arg[t], id[t]),
                                                 interest, id[t]))
    /\ i' = [i EXCEPT ![t] = @ + 1]
    /\ UNCHANGED <<registry, mutex, alive, pc, op, arg, id, meta, kept, size0, nops>>
    /\ UNCHANGED outside

\* The loop is over.
ForEnd(t) ==
    /\ pc[t] = "for_callsites"
    /\ i[t] > Len(callsites)
    /\ pc' = [pc EXCEPT ![t] = "unlock"]
    /\ UNCHANGED <<registry, mutex, alive, locals, trace, nops>>
    /\ UNCHANGED outside

\* ---------------------------------------------------------- reset_registry

\* A reset that leaves the callsites.
ClearCallsitesForgotten(t) ==
    /\ pc[t] = "clear_callsites"
    /\ pc' = [pc EXCEPT ![t] = "clear_dispatchers"]
    /\ UNCHANGED <<registry, mutex, alive, locals, trace, nops>>
    /\ UNCHANGED outside

\* registry.callsites.clear();
ClearCallsites(t) ==
    /\ pc[t] = "clear_callsites"
    /\ callsites' = <<>>
    /\ pc' = [pc EXCEPT ![t] = "clear_dispatchers"]
    /\ UNCHANGED <<dispatchers, mutex, alive, locals, trace, nops>>
    /\ UNCHANGED outside

\* A reset that leaves the registrars.
ClearDispatchersForgotten(t) ==
    /\ pc[t] = "clear_dispatchers"
    /\ pc' = [pc EXCEPT ![t] = "unlock"]
    /\ UNCHANGED <<registry, mutex, alive, locals, trace, nops>>
    /\ UNCHANGED outside

\* registry.dispatchers.clear();
ClearDispatchers(t) ==
    /\ pc[t] = "clear_dispatchers"
    /\ dispatchers' = <<>>
    /\ pc' = [pc EXCEPT ![t] = "unlock"]
    /\ UNCHANGED <<callsites, mutex, alive, locals, trace, nops>>
    /\ UNCHANGED outside

\* ------------------------------------------------------------- environment

\* A collaborator called under the lock (metadata, try_register,
\* register_callsite, add_interest) panics: the guard is dropped while
\* unwinding, which poisons the Mutex.  A panic inside retain leaves the
\* vector as the library's retain leaves it: untouched, or compacted up to
\* the element the closure was called on.
Panic(t) ==
    /\ \/ pc[t] = "metadata"
       \/ pc[t] = "retain" /\ i[t] <= Len(dispatchers)
       \/ pc[t] = "for_callsites" /\ i[t] <= Len(callsites)
    /\ IF pc[t] = "retain"
       THEN dispatchers' \in
              {dispatchers,
               kept[t] \o SubSeq(dispatchers, i[t], Len(dispatchers))}
       ELSE UNCHANGED dispatchers
    /\ pc' = [pc EXCEPT ![t] = "panicked"]
    /\ lock' = NoThread
    /\ poisoned' = TRUE
    /\ ClearLocals(t)
    /\ UNCHANGED <<callsites, alive, trace, nops>>
    /\ UNCHANGED outside

\* The last handle of dispatcher d is dropped; a thread inside
\* register_dispatch(&d) still borrows one.
DropDispatch(d) ==
    /\ d \in alive
    /\ \A t \in Threads : ~(op[t] = "register_dispatch" /\ arg[t] = d)
    /\ \A t \in Threads : \A k \in 1..Len(stack[t]) :
          ~(stack[t][k].op = "register_dispatch" /\ stack[t][k].arg = d)
    /\ alive' = alive \ {d}
    /\ UNCHANGED <<registry, mutex, pc, locals, trace, nops>>
    /\ UNCHANGED outside

\* One statement of thread t inside a call.
Step(t) ==
    \/ Lock(t)
    \/ Metadata(t)
    \/ RetainStep(t)
    \/ RetainEnd(t)
    \/ PushCallsite(t)
    \/ PushRegistrar(t)
    \/ ForCallsite(t)
    \/ ForEnd(t)
    \/ ClearCallsites(t)
    \/ ClearDispatchers(t)
    \/ Unlock(t)

Next ==
    \/ \E t \in Threads, c \in Callsites : CallRegister(t, c)
    \/ \E t \in Threads, d \in Dispatchers : CallRegisterDispatch(t, d)
    \/ \E t \in Threads : CallReset(t)
    \/ \E t \in Threads : Step(t)
    \/ \E t \in Threads : Panic(t)
    \/ \E d \in Dispatchers : DropDispatch(d)

Spec == Init /\ [][Next]_vars

\* Every thread inside a call keeps running; nothing obliges a thread to
\* start a call, a collaborator to panic, or a dispatcher to be dropped.
FairSpec == Spec /\ \A t \in Threads : WF_vars(Step(t))

\* --------------------------------------------------------------- callbacks

\* Thread t is at a call of a collaborator: callsite.metadata(), or
\* try_register and add_interest in retain's closure, or register_callsite
\* and add_interest in the for loop.
InCallback(t) ==
    \/ pc[t] = "metadata"
    \/ pc[t] = "retain" /\ i[t] <= Len(dispatchers)
    \/ pc[t] = "for_callsites" /\ i[t] <= Len(callsites)

\* The frame of the call thread t is running.
Frame(t) ==
    [pc |-> pc[t], op |-> op[t], arg |-> arg[t], id |-> id[t],
     meta |-> meta[t], i |-> i[t], kept |-> kept[t], queried |-> queried[t],
     size0 |-> size0[t]]

\* The collaborator being called calls o(a) of the registry itself: the
\* running call's frame stays below the new call's.
Reenter(t, o, a) ==
    /\ InCallback(t)
    /\ nops < MaxOps
    /\ o = "register" => a \in Callsites
    /\ o = "register_dispatch" => a \in alive
    /\ o = "reset_registry" => a = "none"
    /\ nops' = nops + 1
    /\ stack' = [stack EXCEPT ![t] = <<Frame(t)>> \o @]
    /\ pc' = [pc EXCEPT ![t] = "lock"]
    /\ op' = [op EXCEPT ![t] = o]
    /\ arg' = [arg EXCEPT ![t] = a]
    /\ id' = [id EXCEPT ![t] = nops + 1]
    /\ meta' = [meta EXCEPT ![t] = "none"]
    /\ i' = [i EXCEPT ![t] = 0]
    /\ kept' = [kept EXCEPT ![t] = <<>>]
    /\ queried' = [queried EXCEPT ![t] = <<>>]
    /\ size0' = [size0 EXCEPT ![t] = 0]
    /\ UNCHANGED <<registry, mutex, alive, trace, ident>>

\* REGISTRY.lock() called by the thread that holds the Mutex never returns:
\* it blocks for ever (Lock(t) is never enabled) or, as here, it panics;
\* the panic unwinds every frame of the thread and the guard of the outer
\* call is dropped, which poisons the Mutex.
RelockPanic(t) ==
    /\ pc[t] = "lock"
    /\ lock = t
    /\ stack[t] # <<>>
    /\ LET outer == stack[t][Len(stack[t])]
       IN  IF outer.pc = "retain"
           THEN dispatchers' \in
                  {dispatchers,
                   outer.kept \o SubSeq(dispatchers, outer.i, Len(dispatchers))}
           ELSE UNCHANGED dispatchers
    /\ pc' = [pc EXCEPT ![t] = "panicked"]
    /\ lock' = NoThread
    /\ poisoned' = TRUE
    /\ ClearLocals(t)
    /\ stack' = [stack EXCEPT ![t] = <<>>]
    /\ UNCHANGED <<callsites, alive, trace, nops, ident>>

ReentrantNext ==
    \/ Next
    \/ \E t \in Threads, c \in Callsites : Reenter(t, "register", c)
    \/ \E t \in Threads, d \in Dispatchers : Reenter(t, "register_dispatch", d)
    \/ \E t \in Threads : Reenter(t, "reset_registry", "none")
    \/ \E t \in Threads : RelockPanic(t)

\* The registry with collaborators that may call back into it.
ReentrantSpec == Init /\ [][ReentrantNext]_vars

\* -------------------------------------------------------------- Identifier

\* Everything but the Identifiers.
calling == <<callsites, dispatchers, lock, poisoned, alive, pc, op, arg, id,
             meta, i, kept, queried, size0, trace, nops, stack>>

\* The callsites Identifiers are made of; c3 has the metadata of c2.
Instances == Callsites \cup {"c3"}

\* Where a callsite lives: each is a static of its own, at its own address.
Address(c) == CASE c = "c1" -> 4096 [] c = "c2" -> 4104 [] OTHER -> 4112

\* The copies of a callsite type's vtable that the build may have emitted,
\* one for each codegen unit that coerces to the trait object.
VtableCopies == {"unit1", "unit2"}

\* &'static Callsite: a trait-object reference, made of the address of the
\* callsite and the address of a vtable of its type.
Reference(c, v) == [data |-> Address(c), vtable |-> <<c, v>>]

References == {Reference(c, v) : c \in Instances, v \in VtableCopies}

\* The callsite a reference points to.
Referent(r) == CHOOSE c \in Instances : Address(c) = r.data

\* Identifier::from_callsite (and Callsite::id): wraps the reference.
FromCallsite(r) == [callsite |-> r]

\* PartialEq for Identifier: ptr::eq on the two trait-object references,
\* which compares both words of the references.
IdentifierEq(x, y) ==
    /\ x.callsite.data = y.callsite.data
    /\ x.callsite.vtable = y.callsite.vtable

\* Hash for Identifier: the words the raw trait-object pointer writes to
\* the hasher.
IdentifierHash(x) == <<x.callsite.data, x.callsite.vtable>>

\* Two references to callsites, which may be the same callsite.
IdInit ==
    /\ RegistryInit
    /\ \E r1 \in References, r2 \in References :
          ident = [NoIdent EXCEPT !.a = <<r1>>, !.b = <<r2>>]

\* callsite.id() on one of the two references.
MakeIdentifier ==
    /\ \/ /\ ident.id_a = <<>>
          /\ ident' = [ident EXCEPT !.id_a = <<FromCallsite(ident.a[1])>>]
       \/ /\ ident.id_b = <<>>
          /\ ident' = [ident EXCEPT !.id_b = <<FromCallsite(ident.b[1])>>]
    /\ UNCHANGED calling

\* id_a == id_b
CompareIdentifiers ==
    /\ ident.id_a # <<>> /\ ident.id_b # <<>>
    /\ ident.eq = <<>>
    /\ ident' = [ident EXCEPT
                    !.eq = <<IdentifierEq(ident.id_a[1], ident.id_b[1])>>]
    /\ UNCHANGED calling

\* id_a.hash(..), id_b.hash(..) with hashers in the same state.
HashIdentifiers ==
    /\ ident.id_a # <<>> /\ ident.id_b # <<>>
    /\ ident.hash_a = <<>>
    /\ ident' = [ident EXCEPT !.hash_a = <<IdentifierHash(ident.id_a[1])>>,
                              !.hash_b = <<IdentifierHash(ident.id_b[1])>>]
    /\ UNCHANGED calling

IdNext ==
    \/ MakeIdentifier
    \/ CompareIdentifiers
    \/ HashIdentifiers

IdSpec == IdInit /\ [][IdNext]_vars

\* ----------------------------------------------------------- observations

\* Positions of the trace where a call of o with argument a returned.
Ret(o, a) ==
    {p \in 1..Len(trace) :
        trace[p].ev = "return" /\ trace[p].op = o /\ trace[p].arg = a}

\* Positions of the trace where callsite c received add_interest from a
\* registrar of dispatcher d.
Deliveries(c, d) ==
    {p \in 1..Len(trace) :
        /\ trace[p].ev = "add_interest"
        /\ trace[p].callsite = c
        /\ trace[p].registrar.dispatch = d}

\* A reset_registry returned between positions p and q of the trace.
ResetBetween(p, q) ==
    \E r \in 1..Len(trace) :
        /\ trace[r].ev = "return" /\ trace[r].op = "reset_registry"
        /\ (p < r /\ r < q) \/ (q < r /\ r < p)

\* Thread t is in register, past retain.
AfterRetain(t) ==
    op[t] = "register" /\ pc[t] \in {"push_callsite", "unlock"}

\* ----------------------------------------------------------------- claims

\* C1 as stated: once register(c) and register_dispatch(d) have both
\* returned, in either order, c has received add_interest with
\* d.register_callsite(c.metadata()).
C1_Original ==
    \A c \in Callsites, d \in Dispatchers :
        Ret("register", c) # {} /\ Ret("register_dispatch", d) # {}
        => \E p \in Deliveries(c, d) :
              trace[p].interest = RegisterCallsite(d, Meta(c))

\* C1 amended: once register(c) and register_dispatch(d) have both returned,
\* in either order, with no reset_registry between the two and d not
\* dropped, c has received add_interest with d.register_callsite(c.metadata());
\* and whatever c receives from d is that value.
C1_OrderIndependence ==
    \A c \in Callsites, d \in Dispatchers :
        /\ \A p \in Ret("register", c), q \in Ret("register_dispatch", d) :
              d \in alive /\ ~ResetBetween(p, q)
              => \E e \in Deliveries(c, d) :
                    trace[e].interest = RegisterCallsite(d, Meta(c))
        /\ \A e \in Deliveries(c, d) :
              trace[e].interest = RegisterCallsite(d, Meta(c))

\* Both orders have happened: a callsite registered before a dispatcher and
\* another after it, each having received that dispatcher's interest.
C1_Witness ==
    \E c1 \in Callsites, c2 \in Callsites, d \in Dispatchers :
        \E p1 \in Ret("register", c1), q \in Ret("register_dispatch", d),
           p2 \in Ret("register", c2) :
            /\ p1 < q /\ q < p2
            /\ Deliveries(c1, d) # {} /\ Deliveries(c2, d) # {}

\* C2: when retain has run in register(c), a registrar that answered None
\* is no longer in the active set and no add_interest was made for it, and
\* every registrar still in the set answered with an interest.
C2_LazyEviction ==
    \A t \in Threads :
        AfterRetain(t) =>
            /\ \A k \in 1..Len(queried[t]) :
                  queried[t][k][2] = None =>
                      /\ queried[t][k][1] \notin Range(dispatchers)
                      /\ \A e \in Range(Calls(id[t])) :
                            e.registrar # queried[t][k][1]
            /\ \A r \in Range(dispatchers) :
                  \E k \in 1..Len(queried[t]) :
                      queried[t][k][1] = r /\ queried[t][k][2] # None

\* A register call has met an expired registrar.
C2_Witness ==
    \E t \in Threads :
        /\ AfterRetain(t)
        /\ \E k \in 1..Len(queried[t]) : queried[t][k][2] = None

\* C3: a thread that is at a statement between lock() and the drop of the
\* guard holds the lock; so at most one thread is inside the registry.
C3_MutualExclusion ==
    /\ \A t \in Threads : pc[t] \in InRegistry => lock = t
    /\ \A t \in Threads : lock = t => pc[t] \in InRegistry

\* A thread is inside the registry while another waits for the lock.
C3_Witness ==
    \E t \in Threads, u \in Threads :
        pc[t] \in InRegistry \ {"unlock"} /\ pc[u] = "lock"

\* The last call that returned was reset_registry.
JustReset ==
    /\ History # <<>>
    /\ History[Len(History)].op = "reset_registry"

\* C4: when reset_registry returns both vectors are empty, and they stay so
\* until the next call; a registration running right after it makes no
\* add_interest call and leaves the registry holding its argument alone.
C4_ResetIsolation ==
    /\ \A t \in Threads :
          op[t] = "reset_registry" /\ pc[t] = "unlock"
          => callsites = <<>> /\ dispatchers = <<>>
    /\ JustReset /\ lock = NoThread => callsites = <<>> /\ dispatchers = <<>>
    /\ \A t \in Threads :
          JustReset /\ pc[t] = "unlock" =>
              /\ op[t] = "register" =>
                    /\ Calls(id[t]) = <<>>
                    /\ callsites = <<arg[t]>> /\ dispatchers = <<>>
              /\ op[t] = "register_dispatch" =>
                    /\ Calls(id[t]) = <<>>
                    /\ callsites = <<>>
                    /\ dispatchers = <<Registrar(arg[t], id[t])>>

\* A callsite is registered right after a reset that followed the
\* registration of a dispatcher which still exists.
C4_Witness ==
    \E t \in Threads, d \in alive :
        /\ op[t] = "register" /\ pc[t] = "unlock"
        /\ Len(History) = 2
        /\ History[1].op = "register_dispatch" /\ History[1].arg = d
        /\ JustReset

Count(s, x) == Cardinality({k \in 1..Len(s) : s[k] = x})

\* Number of register(c) calls that returned after the last reset.
RegisteredSinceReset(c) ==
    Cardinality({p \in Ret("register", c) :
                    ~\E r \in Ret("reset_registry", "none") : p < r})

\* C5: while no call is inside the registry, the callsite vector holds one
\* entry for c per register(c) call returned since the last reset; two
\* calls for the same callsite make two entries.
C5_NoDedup ==
    lock = NoThread =>
        \A c \in Callsites : Count(callsites, c) = RegisteredSinceReset(c)

\* Some callsite has been registered twice and is held twice.
C5_Witness ==
    \E c \in Callsites :
        lock = NoThread /\ Count(callsites, c) = 2

\* The entries of a call's queries that were answered with an interest.
Answered(q) == SelectSeq(q, LAMBDA e : e[2] # None)

\* C6: when register(c) is about to return, it has queried as many
\* registrars as the active set held, and its add_interest calls are, in
\* order, one per registrar that answered, on c, with the value answered;
\* when register_dispatch(d) is about to return, its queries are one per
\* known callsite, in order, and its add_interest calls are one per known
\* callsite, on that callsite, with d.register_callsite of its metadata.
C6_ExactlyOneDelivery ==
    \A t \in Threads :
        pc[t] = "unlock" =>
            /\ op[t] = "register" =>
                  /\ Len(queried[t]) = size0[t]
                  /\ Calls(id[t]) =
                        [k \in 1..Len(Answered(queried[t])) |->
                            AddInterest(arg[t], Answered(queried[t])[k][1],
                                        Answered(queried[t])[k][2], id[t])]
            /\ op[t] = "register_dispatch" =>
                  /\ queried[t] =
                        [k \in 1..Len(callsites) |->
                            <<callsites[k],
                              RegisterCallsite(arg[t], Meta(callsites[k]))>>]
                  /\ Calls(id[t]) =
                        [k \in 1..Len(callsites) |->
                            AddInterest(callsites[k], Registrar(arg[t], id[t]),
                                        queried[t][k][2], id[t])]

\* The scenario of the specification: d1 registered, c1 registered and told
\* "always" once, then d2 registered, which tells c1 "never" once.
C6_Witness ==
    \E t \in Threads :
        /\ pc[t] = "unlock" /\ op[t] = "register_dispatch" /\ arg[t] = "d2"
        /\ callsites = <<"c1">>
        /\ Cardinality(Deliveries("c1", "d1")) = 1
        /\ \A p \in Deliveries("c1", "d1") : trace[p].interest = "always"
        /\ Cardinality(Deliveries("c1", "d2")) = 1
        /\ \A p \in Deliveries("c1", "d2") : trace[p].interest = "never"

\* Sequence s is an initial part of sequence u.
IsPrefix(s, u) ==
    /\ Len(s) <= Len(u)
    /\ \A k \in 1..Len(s) : s[k] = u[k]

\* C7: a step that is not made by register or reset_registry keeps every
\* registrar of the active set, in place: register_dispatch only appends.
C7_EvictionOnlyByRegister ==
    [][\/ IsPrefix(dispatchers, dispatchers')
       \/ /\ lock # NoThread
          /\ op[lock] \in {"register", "reset_registry"}]_vars

\* register_dispatch is about to return with an expired registrar, pushed
\* by an earlier call, still in the active set.
C7_Witness ==
    \E t \in Threads :
        /\ pc[t] = "unlock" /\ op[t] = "register_dispatch"
        /\ \E k \in 1..Len(dispatchers) :
              /\ dispatchers[k].dispatch \notin alive
              /\ dispatchers[k].serial # id[t]

\* C8: once the Mutex is poisoned no thread is inside the registry, a
\* thread that gets past lock() panics, and no step changes either vector,
\* calls add_interest or returns from a registry call.
C8_PoisonIsFatal ==
    /\ [](poisoned => \A t \in Threads : pc[t] \notin InRegistry)
    /\ [][poisoned =>
            /\ poisoned'
            /\ registry' = registry
            /\ trace' = trace
            /\ \A t \in Threads :
                  pc[t] = "lock" /\ pc'[t] # "lock" => pc'[t] = "panicked"]_vars

\* A thread panicked under the lock and the other thread's call, made
\* later, has panicked at lock().
C8_Witness ==
    /\ poisoned
    /\ \A t \in Threads : pc[t] = "panicked"

C10_AppendOnly ==
    /\ [](\A t \in Threads :
            /\ pc[t] = "push_callsite" => Len(queried[t]) = size0[t]
            /\ op[t] = "register" /\ pc[t] = "unlock" =>
                  /\ callsites # <<>>
                  /\ callsites[Len(callsites)] = arg[t])
    /\ [][\/ callsites' = callsites
          \/ /\ lock # NoThread
             /\ op[lock] = "reset_registry"
             /\ callsites' = <<>>
          \/ /\ lock # NoThread
             /\ op[lock] = "register" /\ pc[lock] = "push_callsite"
             /\ callsites' = Append(callsites, arg[lock])]_vars

\* A callsite has been appended after another by a register call all of
\* whose registrars had expired.
C10_Witness ==
    \E t \in Threads :
        /\ op[t] = "register" /\ pc[t] = "unlock"
        /\ Len(callsites) = 2
        /\ queried[t] # <<>>
        /\ Answered(queried[t]) = <<>>

\* C11 as stated: two Identifiers are equal exactly when they were made of
\* the same callsite, whatever the metadata; equal Identifiers hash alike;
\* and the hash is decided by the callsite's address alone.
C11_IdentifierIdentity ==
    /\ ident.eq # <<>> =>
          (ident.eq[1] <=> Referent(ident.a[1]) = Referent(ident.b[1]))
    /\ ident.eq = <<TRUE>> /\ ident.hash_a # <<>> =>
          ident.hash_a = ident.hash_b
    /\ ident.hash_a # <<>> /\ ident.a[1].data = ident.b[1].data =>
          ident.hash_a = ident.hash_b

\* C12: a step of register_dispatch(d) leaves the callsite vector alone and
\* changes the active set only by appending d's new registrar, once; past
\* the push that registrar is the last of the set and the only one of the
\* call, and every add_interest of the call is made for it.
C12_RegisterDispatchFrame ==
    /\ [](\A t \in Threads :
            op[t] = "register_dispatch"
            /\ pc[t] \in {"for_callsites", "unlock"} =>
                /\ dispatchers # <<>>
                /\ dispatchers[Len(dispatchers)] = Registrar(arg[t], id[t])
                /\ Count(dispatchers, Registrar(arg[t], id[t])) = 1
                /\ \A e \in Range(Calls(id[t])) :
                      e.registrar = Registrar(arg[t], id[t]))
    /\ [][lock # NoThread /\ op[lock] = "register_dispatch" =>
            /\ callsites' = callsites
            /\ \/ dispatchers' = dispatchers
               \/ /\ pc[lock] = "push_registrar"
                  /\ dispatchers' =
                        Append(dispatchers, Registrar(arg[lock], id[lock]))]_vars

\* register_dispatch is about to return, having told a callsite, with the
\* expired registrar of another dispatcher still ahead of its own.
C12_Witness ==
    \E t \in Threads :
        /\ op[t] = "register_dispatch" /\ pc[t] = "unlock"
        /\ Len(callsites) = 1 /\ Len(Calls(id[t])) = 1
        /\ Len(dispatchers) = 2
        /\ dispatchers[1].dispatch \notin alive

\* The registrars a call has queried, in the order of the queries.
QueriedRegistrars(t) == [k \in 1..Len(queried[t]) |-> queried[t][k][1]]

\* The registrars that answered a call with an interest, in that order.
AnsweredRegistrars(t) ==
    [k \in 1..Len(Answered(queried[t])) |-> Answered(queried[t])[k][1]]

\* C13: while retain runs in register(c), the registrars queried so far are
\* the first ones of the active set, each once and in its order; when it
\* is over all of them have been queried, the active set is the
\* sub-sequence of those that answered with an interest, in their order,
\* and each of these, also one behind an expired registrar, has had its
\* interest delivered to c.
C13_RetainInOrder ==
    \A t \in Threads :
        /\ pc[t] = "retain" =>
              /\ Len(queried[t]) = i[t] - 1
              /\ QueriedRegistrars(t) = SubSeq(dispatchers, 1, i[t] - 1)
              /\ Len(dispatchers) = size0[t]
        /\ AfterRetain(t) =>
              /\ Len(queried[t]) = size0[t]
              /\ \A k \in 1..Len(queried[t]) :
                    Count(QueriedRegistrars(t), queried[t][k][1]) = 1
              /\ dispatchers = AnsweredRegistrars(t)
              /\ [k \in 1..Len(Calls(id[t])) |-> Calls(id[t])[k].registrar]
                    = AnsweredRegistrars(t)

\* register has met an expired registrar and then a live one, which
\* answered and is what the active set now holds.
C13_Witness ==
    \E t \in Threads :
        /\ AfterRetain(t)
        /\ Len(queried[t]) = 2
        /\ queried[t][1][2] = None /\ queried[t][2][2] # None
        /\ dispatchers = <<queried[t][2][1]>>
        /\ Len(Calls(id[t])) = 1

\* No call of o with argument a is running in any thread.
NotRunning(o, a) == \A t \in Threads : ~(op[t] = o /\ arg[t] = a)

\* C14: when register(c) and register_dispatch(d) have each been called
\* once and have returned, whatever the interleaving of the two threads,
\* with d not dropped and no reset_registry between the two, c has received
\* d's interest exactly once.
C14_ExactlyOnceConcurrent ==
    \A c \in Callsites, d \in Dispatchers :
        \A p \in Ret("register", c), q \in Ret("register_dispatch", d) :
            /\ Cardinality(Ret("register", c)) = 1
            /\ Cardinality(Ret("register_dispatch", d)) = 1
            /\ NotRunning("register", c)
            /\ NotRunning("register_dispatch", d)
            /\ ~poisoned
            /\ d \in alive
            /\ ~ResetBetween(p, q)
            => Cardinality(Deliveries(c, d)) = 1

\* The two calls overlapped: the one called second returned first; and the
\* callsite has heard from the dispatcher once.
C14_Witness ==
    \E c \in Callsites, d \in alive :
        \E p \in Ret("register", c), q \in Ret("register_dispatch", d) :
            /\ Len(trace) = 3
            /\ \/ p < q /\ trace[p].by > trace[q].by
               \/ q < p /\ trace[q].by > trace[p].by
            /\ Cardinality(Deliveries(c, d)) = 1

\* What callsite c has been told, in order: add_interest and
\* remove_interest calls.
Told(c) ==
    SelectSeq(trace, LAMBDA e : e.ev # "return" /\ e.callsite = c)

\* Whether a callsite told the sequence of calls s is enabled: some
\* interest other than "never" was added since the last remove_interest.
EnabledAfter(s) ==
    \E k \in 1..Len(s) :
        /\ s[k].ev = "add_interest" /\ s[k].interest # "never"
        /\ \A n \in (k + 1)..Len(s) : s[n].ev # "remove_interest"

\* C15: no callsite is ever told remove_interest, what a callsite has been
\* told is never taken back, and a callsite that is enabled stays enabled,
\* in particular through the eviction of a registrar and through a reset.
C15_NeverRevokes ==
    /\ [](\A k \in 1..Len(trace) : trace[k].ev # "remove_interest")
    /\ [][/\ IsPrefix(trace, trace')
          /\ \A c \in Callsites :
                EnabledAfter(Told(c)) => EnabledAfter(Told(c))']_vars

\* A callsite was enabled by a dispatcher that has since been dropped and
\* whose registrar a later register call has just evicted; it is still
\* enabled.
C15_Witness ==
    \E t \in Threads, c \in Range(callsites) :
        /\ AfterRetain(t)
        /\ \E k \in 1..Len(queried[t]) :
              /\ queried[t][k][2] = None
              /\ Deliveries(c, queried[t][k][1].dispatch) # {}
        /\ EnabledAfter(Told(c))

\* Position p of the trace follows the return of call k with no
\* reset_registry returned in between.
SinceReturn(k, p) ==
    \E q \in 1..(p - 1) :
        /\ trace[q].ev = "return" /\ trace[q].by = k
        /\ ~\E r \in (q + 1)..(p - 1) :
              trace[r].ev = "return" /\ trace[r].op = "reset_registry"

\* C16: every add_interest made by register_dispatch is on a callsite whose
\* registration returned before it with no reset in between, and every
\* add_interest made by register is for a registrar whose register_dispatch
\* returned before it with no reset in between: nothing crosses a reset.
C16_ResetForgets ==
    \A p \in 1..Len(trace) :
        trace[p].ev = "add_interest" =>
            IF trace[p].registrar.serial = trace[p].by
            THEN \E q \in 1..(p - 1) :
                    /\ trace[q].ev = "return" /\ trace[q].op = "register"
                    /\ trace[q].arg = trace[p].callsite
                    /\ SinceReturn(trace[q].by, p)
            ELSE SinceReturn(trace[p].registrar.serial, p)

\* A callsite was registered, the registry reset, and a dispatcher
\* registered after that has returned without telling the callsite.
C16_Witness ==
    \E c \in Callsites, d \in alive :
        /\ Len(History) = 3
        /\ History[1].op = "register" /\ History[1].arg = c
        /\ History[2].op = "reset_registry"
        /\ History[3].op = "register_dispatch" /\ History[3].arg = d
        /\ Deliveries(c, d) = {}

\* C17: a thread at a call of a collaborator holds the lock; a call of the
\* registry made from inside such a callback waits at lock() for the lock
\* its own thread holds, and from there the thread never gets past lock():
\* it stays, or it panics, and neither call returns.
C17_CallbacksUnderLock ==
    /\ [](\A t \in Threads :
            /\ InCallback(t) => lock = t
            /\ stack[t] # <<>> => pc[t] = "lock" /\ lock = t)
    /\ [][\A t \in Threads :
            stack[t] # <<>> =>
                /\ \/ pc'[t] = "lock" /\ stack'[t] = stack[t]
                   \/ pc'[t] = "panicked"
                /\ History' = History]_vars

\* A collaborator has called back into the registry: its thread waits for
\* its own lock, and the other thread's call waits behind it.
C17_Witness ==
    \E t \in Threads, u \in Threads :
        /\ stack[t] # <<>> /\ pc[t] = "lock" /\ lock = t
        /\ u # t /\ pc[u] = "lock"

====
